---- MODULE Spec2Model ----
(***************************************************************************)
(* Model of the flight-school auditor: the weather checks of violations.py *)
(* (bad_visibility, bad_winds, bad_ceiling), the observation lookup        *)
(* get_weather_report, the classifier get_weather_violation, the audit     *)
(* loop list_weather_violations, and the driver of app.py                  *)
(* (discover_violations, execute).                                         *)
(*                                                                         *)
(* Python values are encoded as follows.                                   *)
(*   a str used as a measurement   Str(s) = [str |-> s]                    *)
(*   a dict                        a record of its keys                    *)
(*   a list of cloud layers        List(l) = [list |-> l]                  *)
(*   None                          None = [none |-> TRUE]                  *)
(*   a timestamp string            the sequence of its character codes     *)
(*   a datetime                    [hour, tzinfo] on the fixed date        *)
(*   a float                       an integer; visibility distances and    *)
(*                                 limits are held in hundredths of their  *)
(*                                 unit, winds in whole knots or m/s,      *)
(*                                 heights in whole feet                   *)
(* A computed quotient or product is the exact rational [num, den].        *)
(* A call ends in an outcome: Return(v), ReturnNone, or Raise(exception).  *)
(***************************************************************************)
EXTENDS Integers, Sequences, FiniteSets, TLC

VARIABLES
    fn,         \* the function under check ("execute" for the application)
    inp,        \* its arguments
    out,        \* its outcome, Pending until it has been applied
    pc,         \* position of the application: in execute, in the audit loop, ...
    lessons,    \* list_weather_violations: the lesson rows (lessons[1:] of the file)
    x,          \* list_weather_violations: the loop index (1-based here)
    results,    \* list_weather_violations: the result list, as references to rows
    printed,    \* the lines printed so far
    written,    \* the files written by utils.write_csv so far
    tested,     \* whether tests.test_all() ran
    audits,     \* the directories list_weather_violations was called on
    raised,     \* the exception that left list_weather_violations, "" if none
    vfr,        \* list_weather_violations: the local vfr, "unbound" before it is assigned
    order       \* the rows evaluated so far, in the order they were taken

vars == <<fn, inp, out, pc, lessons, x, results, printed, written, tested, audits, raised,
          vfr, order>>

(***************************************************************************)
(* Bounds of the model.                                                    *)
(***************************************************************************)
\* visibility distances and limits range over 0..MaxQuarters quarter miles
MaxQuarters == 4
\* wind speeds and limits range over 0..MaxWindStep steps of five
MaxWindStep == 4
\* a sky holds at most MaxLayers cloud layers
MaxLayers == 2
\* observations and takeoffs fall on the hours 8..MaxHour
MaxHour == 11
\* a lessons file holds at most MaxLessons rows after the header
MaxLessons == 2

(***************************************************************************)
(* Values and outcomes.                                                    *)
(***************************************************************************)
Str(s) == [str |-> s]
List(l) == [list |-> l]
None == [none |-> TRUE]

Pending == [kind |-> "pending"]
Return(v) == [kind |-> "return", value |-> v]
ReturnNone == [kind |-> "return_none"]
Raise(e) == [kind |-> "raise", exc |-> e]

Returned(o) == o.kind = "return"
Raised(o) == o.kind = "raise"

\* the value a caller receives from an outcome that is not a raise
ValueOf(o) == IF o.kind = "return_none" THEN None ELSE o.value

Quot(n, d) == [num |-> n, den |-> d]
\* limit >= q and q > limit, for an integer limit and a rational q with q.den > 0
GeQuot(limit, q) == limit * q.den >= q.num
GtQuot(q, limit) == q.num > limit * q.den

Min(S) == CHOOSE m \in S : \A n \in S : m <= n

(***************************************************************************)
(* bad_visibility(visibility, minimum)                                     *)
(***************************************************************************)
\* feet in a statute mile: visibility[...]/5280
FeetPerMile == 5280

\* mutant: the comparison is strict, so a visibility equal to the minimum passes
bad_visibility_strict(visibility, minimum) ==
    IF visibility = Str("unavailable") THEN Return(TRUE)
    ELSE LET key == IF "minimum" \in DOMAIN visibility THEN "minimum" ELSE "prevailing"
             viz == IF visibility.units = "FT" THEN Quot(visibility[key], FeetPerMile)
                    ELSE Quot(visibility[key], 1)
         IN  Return(minimum * viz.den > viz.num)

bad_visibility(visibility, minimum) ==
    IF visibility = Str("unavailable")
    THEN Return(TRUE)                                  \* bad record keeping
    ELSE IF "str" \in DOMAIN visibility
    THEN Raise("TypeError")                            \* visibility["units"] of a str
    ELSE
      LET key == IF "minimum" \in DOMAIN visibility THEN "minimum"
                 ELSE IF "prevailing" \in DOMAIN visibility THEN "prevailing"
                 ELSE "neither"
      IN  IF key = "neither" THEN Raise("UnboundLocalError")     \* viz never assigned
          ELSE IF "units" \notin DOMAIN visibility THEN Raise("KeyError")
          ELSE IF visibility.units = "FT"
               THEN Return(GeQuot(minimum, Quot(visibility[key], FeetPerMile)))
          ELSE IF visibility.units = "SM"
               THEN Return(GeQuot(minimum, Quot(visibility[key], 1)))
          ELSE Raise("UnboundLocalError")                        \* viz never assigned

(***************************************************************************)
(* bad_winds(winds, maxwind, maxcross)                                     *)
(***************************************************************************)
\* 1 MPS is 1.94384 knots = KnotsPerMpsNum / KnotsPerMpsDen
KnotsPerMpsNum == 194384
KnotsPerMpsDen == 100000

\* the value of winds[key] in knots
Knots(winds, key) ==
    IF winds.units = "MPS" THEN Quot(winds[key] * KnotsPerMpsNum, KnotsPerMpsDen)
    ELSE Quot(winds[key], 1)

bad_winds(winds, maxwind, maxcross) ==
    IF winds = Str("calm") THEN Return(FALSE)
    ELSE IF winds = Str("unavailable") THEN Return(TRUE)        \* bad record keeping
    ELSE IF "str" \in DOMAIN winds THEN Raise("TypeError")      \* winds["units"] of a str
    ELSE IF "units" \notin DOMAIN winds THEN Raise("KeyError")
    ELSE IF winds.units \in {"MPS", "KT"}
    THEN IF "crosswind" \notin DOMAIN winds
         THEN Raise("KeyError")                                 \* winds["crosswind"]
         ELSE LET key == IF "gusts" \in DOMAIN winds THEN "gusts"
                         ELSE IF "speed" \in DOMAIN winds THEN "speed"
                         ELSE "neither"
              IN  IF key = "neither" THEN Raise("UnboundLocalError")
                  ELSE Return(GtQuot(Knots(winds, key), maxwind)
                              \/ GtQuot(Knots(winds, "crosswind"), maxcross))
    ELSE Raise("UnboundLocalError")                             \* windz never assigned

(***************************************************************************)
(* bad_ceiling(ceiling, minimum)                                           *)
(***************************************************************************)
\* the heights of the layers of one type: the four loops over ceiling
HeightsOf(layers, type) ==
    {layers[i].height : i \in {j \in 1..Len(layers) : layers[j].type = type}}

\* mutant: only the overcast layers are compared
bad_ceiling_overcast(ceiling, minimum) ==
    IF ceiling = Str("clear") THEN Return(FALSE)
    ELSE IF ceiling = Str("unavailable") THEN Return(TRUE)
    ELSE LET all == HeightsOf(ceiling.list, "overcast")
         IN  IF all = {} THEN Return(FALSE) ELSE Return(minimum > Min(all))

bad_ceiling(ceiling, minimum) ==
    IF ceiling = Str("clear") THEN Return(FALSE)
    ELSE IF ceiling = Str("unavailable") THEN Return(TRUE)      \* bad record keeping
    ELSE IF "str" \in DOMAIN ceiling
    THEN IF ceiling.str = "" THEN Return(FALSE)                 \* no loop iteration at all
         ELSE Raise("TypeError")                                \* ceiling[x]["type"] of a str
    ELSE
      LET layers == ceiling.list
          scattered == HeightsOf(layers, "scattered")
          broken == HeightsOf(layers, "broken")
          overcast == HeightsOf(layers, "overcast")
          indef_ceil == HeightsOf(layers, "indefinite ceiling")
          comp_ceils == (IF broken # {} THEN {Min(broken)} ELSE {})
                        \cup (IF overcast # {} THEN {Min(overcast)} ELSE {})
                        \cup (IF indef_ceil # {} THEN {Min(indef_ceil)} ELSE {})
          \* scattered is a list or, once reduced by min, a number: never None
          scattered_not_none == TRUE
      IN  IF \E i \in 1..Len(layers) : "type" \notin DOMAIN layers[i]
          THEN Raise("KeyError")
          ELSE IF comp_ceils = {} /\ scattered_not_none THEN Return(FALSE)
          ELSE IF comp_ceils # {} THEN Return(minimum > Min(comp_ceils))
          ELSE ReturnNone

(***************************************************************************)
(* Timestamps.  A datetime is [hour, tzinfo] on the date 2017-04-21, its   *)
(* tzinfo the UTC offset in hours (dateutil's tzoffset objects are equal   *)
(* exactly when their offsets are).                                        *)
(***************************************************************************)
\* the two decimal digits of n as character codes ('0' is 48)
Digits2(n) == <<48 + (n \div 10), 48 + (n % 10)>>

Abs(n) == IF n < 0 THEN 0 - n ELSE n

\* takeoff.isoformat(): '2017-04-21T' hh ':00:00' ('+' | '-') oo ':00'
isoformat(dt) ==
    <<50, 48, 49, 55, 45, 48, 52, 45, 50, 49, 84>> \o Digits2(dt.hour)
        \o <<58, 48, 48, 58, 48, 48>>
        \o <<IF dt.tzinfo < 0 THEN 45 ELSE 43>> \o Digits2(Abs(dt.tzinfo))
        \o <<58, 48, 48>>

IsDigit(c) == c \in 48..57

\* whether utils.str_to_time can parse the string at all
Parseable(s) ==
    /\ Len(s) = 25
    /\ SubSeq(s, 1, 11) = <<50, 48, 49, 55, 45, 48, 52, 45, 50, 49, 84>>
    /\ IsDigit(s[12]) /\ IsDigit(s[13])
    /\ SubSeq(s, 14, 19) = <<58, 48, 48, 58, 48, 48>>
    /\ s[20] \in {43, 45}
    /\ IsDigit(s[21]) /\ IsDigit(s[22])
    /\ SubSeq(s, 23, 25) = <<58, 48, 48>>

\* utils.str_to_time(s): the datetime a timestamp string denotes
str_to_time(s) ==
    IF ~Parseable(s) THEN Raise("ParserError")
    ELSE Return([hour |-> (s[12] - 48) * 10 + (s[13] - 48),
                 tzinfo |-> (IF s[20] = 45 THEN 0 - 1 ELSE 1)
                            * ((s[21] - 48) * 10 + (s[22] - 48))])

\* a > b for two aware datetimes: their UTC instants are compared
DatetimeGt(a, b) == a.hour - a.tzinfo > b.hour - b.tzinfo

\* a < b for two str values: by code point, a proper prefix first
RECURSIVE StrLt(_, _)
StrLt(a, b) ==
    IF a = <<>> THEN b # <<>>
    ELSE IF b = <<>> THEN FALSE
    ELSE IF Head(a) # Head(b) THEN Head(a) < Head(b)
    ELSE StrLt(Tail(a), Tail(b))

\* max(keys) for a non-empty collection of distinct str values
StrMax(keys) == CHOOSE m \in keys : \A k \in keys : k = m \/ StrLt(k, m)

(***************************************************************************)
(* get_weather_report(takeoff, weather)                                    *)
(***************************************************************************)
\* mutant: the fall-back scan ignores the UTC offset
BeforeKeys_anyoffset(takeoff, weather) ==
    {key \in DOMAIN weather : DatetimeGt(takeoff, str_to_time(key).value)}

\* the keys the fall-back loop collects
BeforeKeys(takeoff, weather) ==
    {key \in DOMAIN weather :
        LET key_dto == str_to_time(key).value
        IN  takeoff.tzinfo = key_dto.tzinfo /\ DatetimeGt(takeoff, key_dto)}

get_weather_report(takeoff, weather) ==
    LET iso_takeoff == isoformat(takeoff)
    IN  IF iso_takeoff \in DOMAIN weather
        THEN Return(weather[iso_takeoff])
        ELSE \* except: the key is missing
          IF \E key \in DOMAIN weather : Raised(str_to_time(key))
          THEN Raise("ParserError")
          ELSE
            LET before_keys == BeforeKeys(takeoff, weather)
            IN  IF before_keys = {}
                THEN Raise("ValueError")          \* max() of an empty list
                ELSE LET best_key == StrMax(before_keys)
                     IN  IF Len(best_key) # 0 THEN Return(weather[best_key])
                         ELSE ReturnNone

(***************************************************************************)
(* get_weather_violation(weather, minimums)                                *)
(* minimums is the Python list [ceiling, visibility, wind, crosswind];     *)
(* Python's minimums[i] is minimums[i+1] here.                             *)
(***************************************************************************)
\* the label for the checks that fired, listed in the order of baddies
LabelOf(baddies) ==
    IF Len(baddies) = 0 THEN ""
    ELSE IF Len(baddies) = 1 THEN baddies[1]
    ELSE "Weather"

Baddies(b_v, b_w, b_c) ==
    (IF b_v THEN <<"Visibility">> ELSE <<>>)
        \o (IF b_w THEN <<"Winds">> ELSE <<>>)
        \o (IF b_c THEN <<"Ceiling">> ELSE <<>>)

get_weather_violation(weather, minimums) ==
    IF weather = None THEN Return("Unknown")
    ELSE IF {"visibility", "wind", "sky"} \ DOMAIN weather # {} THEN Raise("KeyError")
    ELSE
      LET v == bad_visibility(weather.visibility, minimums[2])
          w == bad_winds(weather.wind, minimums[3], minimums[4])
          c == bad_ceiling(weather.sky, minimums[1])
      IN  IF Raised(v) THEN v
          ELSE IF Raised(w) THEN w
          ELSE IF Raised(c) THEN c
          ELSE Return(LabelOf(Baddies(v = Return(TRUE), w = Return(TRUE),
                                      c = Return(TRUE))))

(***************************************************************************)
(* The inputs the checks are applied to.                                   *)
(***************************************************************************)
\* visibility distances: feet and statute miles on a quarter-mile grid, and the
\* 1400 ft and 21120 ft of the documented example; all in hundredths
FeetValues == {132000 * q : q \in 0..MaxQuarters} \cup {140000, 2112000}
MileValues == {25 * q : q \in 0..MaxQuarters} \cup {30}
VisibilityValues(units) == IF units = "FT" THEN FeetValues ELSE MileValues

\* a dictionary with 'prevailing' and 'units', and optionally 'minimum' and 'maximum'
VisibilityDicts ==
    UNION {
        [units : {u}, prevailing : VisibilityValues(u)]
        \cup [units : {u}, prevailing : VisibilityValues(u), minimum : VisibilityValues(u)]
        \cup {[units |-> u, prevailing |-> p, minimum |-> m, maximum |-> p] :
                 p \in VisibilityValues(u), m \in VisibilityValues(u)}
        : u \in {"FT", "SM"}}

VisibilityMeasurements == {Str("unavailable")} \cup VisibilityDicts
VisibilityLimits == MileValues

\* wind values, in knots or metres per second, and the 12 and 18 of the example
WindValues == {5 * k : k \in 0..MaxWindStep} \cup {12, 18}
WindLimits == {5 * k : k \in 1..MaxWindStep}

\* a dictionary with 'speed' and 'units', and optionally 'crosswind' and 'gusts'
WindDicts ==
    [units : {"KT", "MPS"}, speed : WindValues]
    \cup [units : {"KT", "MPS"}, speed : WindValues, crosswind : WindValues]
    \cup [units : {"KT", "MPS"}, speed : WindValues, gusts : WindValues]
    \cup [units : {"KT", "MPS"}, speed : WindValues, crosswind : WindValues,
          gusts : WindValues]

WindMeasurements == {Str("calm"), Str("unavailable")} \cup WindDicts

LayerTypes == {"a few", "scattered", "broken", "overcast", "indefinite ceiling"}
LayerHeights == {700, 1200, 2100}
CloudLayers == [type : LayerTypes, height : LayerHeights, units : {"FT"}]
LayerLists == UNION {[1..n -> CloudLayers] : n \in 0..MaxLayers}
CeilingMeasurements == {Str("clear"), Str("unavailable")} \cup {List(l) : l \in LayerLists}
CeilingLimits == {500, 700, 1000, 1200, 2000, 3000}

\* takeoffs and observations: whole hours of one day, Eastern daylight or standard
Hours == 8..MaxHour
Offsets == {0 - 4, 0 - 5}
Datetimes == [hour : Hours, tzinfo : Offsets]
Timestamps == {isoformat(dt) : dt \in Datetimes}

\* the report stored under a key: its 'code' names the observation
ReportAt(key) ==
    [visibility |-> [units |-> "SM", prevailing |-> 1000],
     wind |-> Str("calm"), sky |-> Str("clear"), code |-> key]
WeatherLogs == {[key \in keys |-> ReportAt(key)] : keys \in SUBSET Timestamps}

\* the readings the classifier is applied to
VisibilitySamples ==
    {Str("unavailable"),
     [units |-> "SM", prevailing |-> 1000],
     [units |-> "SM", prevailing |-> 100],
     [units |-> "FT", prevailing |-> 2112000, minimum |-> 140000, maximum |-> 2112000]}
WindSamples ==
    {Str("calm"), Str("unavailable"),
     [units |-> "KT", speed |-> 12, crosswind |-> 10, gusts |-> 18],
     [units |-> "KT", speed |-> 12, crosswind |-> 3],
     [units |-> "MPS", speed |-> 5, crosswind |-> 1],
     [units |-> "KT", speed |-> 5]}
CeilingSamples ==
    {Str("clear"), Str("unavailable"), List(<<>>),
     List(<<[type |-> "scattered", height |-> 700, units |-> "FT"],
            [type |-> "overcast", height |-> 1200, units |-> "FT"]>>),
     List(<<[type |-> "broken", height |-> 2100, units |-> "FT"]>>)}
Readings == [visibility : VisibilitySamples, wind : WindSamples, sky : CeilingSamples]
MinimumsLists == {<<c, v, w, cw>> : c \in {1000, 3000}, v \in {25, 100},
                                    w \in {10, 20}, cw \in {5, 10}}

(***************************************************************************)
(* The dataset directory 'KITH-2017' the application is run on.            *)
(***************************************************************************)
\* weather.json: two good reports at -04:00 and a wind reading without a
\* crosswind at -05:00
WeatherFile ==
    (isoformat([hour |-> 8, tzinfo |-> 0 - 4]) :>
        [visibility |-> [units |-> "SM", prevailing |-> 100],
         wind |-> [units |-> "KT", speed |-> 12, crosswind |-> 3],
         sky |-> Str("clear"),
         code |-> isoformat([hour |-> 8, tzinfo |-> 0 - 4])])
    @@ (isoformat([hour |-> 10, tzinfo |-> 0 - 4]) :>
        [visibility |-> [units |-> "SM", prevailing |-> 1000],
         wind |-> Str("calm"),
         sky |-> List(<<[type |-> "scattered", height |-> 700, units |-> "FT"],
                        [type |-> "overcast", height |-> 1200, units |-> "FT"]>>),
         code |-> isoformat([hour |-> 10, tzinfo |-> 0 - 4])])
    @@ (isoformat([hour |-> 9, tzinfo |-> 0 - 5]) :>
        [visibility |-> Str("unavailable"),
         wind |-> [units |-> "KT", speed |-> 5],
         sky |-> Str("clear"),
         code |-> isoformat([hour |-> 9, tzinfo |-> 0 - 5])])

\* students.csv: the registered student ids
Students == {"S00687"}

\* a timestamp field utils.str_to_time cannot parse: 'n/a'
BadTimestamp == <<110, 47, 97>>

\* lessons.csv: rows STUDENT, AIRPLANE, INSTRUCTOR, TAKEOFF, LANDING, FILED, AREA
LessonRow(student, takeoff, filed) ==
    <<student, "548QR", "I061", takeoff, "2017-04-21T23:00:00-04:00", filed, "Pattern">>
LessonRows ==
    {LessonRow("S00687", t, f) : t \in Timestamps, f \in {"VFR", "IFR"}}
    \cup {LessonRow("S00687", BadTimestamp, "VFR"),
          LessonRow("S99999", isoformat([hour |-> 8, tzinfo |-> 0 - 4]), "VFR"),
          LessonRow("S00687", isoformat([hour |-> 8, tzinfo |-> 0 - 4]), "SVFR")}
LessonFiles == UNION {[1..n -> LessonRows] : n \in 0..MaxLessons}

\* the directories that hold a dataset
Datasets == {"KITH-2017"}

(***************************************************************************)
(* pilots.get_certification / utils.get_for_id / utils.daytime /           *)
(* pilots.get_minimums, at their interface: the minimums that apply to a   *)
(* lesson, VMC for a VFR flight and IMC for an IFR flight; the lookup      *)
(* fails for a student that is not registered.                             *)
(***************************************************************************)
pilot_minimums(student, instructed, visual) ==
    IF student \notin Students THEN Raise("TypeError")
    ELSE IF visual THEN Return(<<3000, 100, 10, 5>>)
    ELSE Return(<<1000, 25, 20, 10>>)

(***************************************************************************)
(* list_weather_violations(directory): the loop body.                      *)
(***************************************************************************)
\* if lessons[x][5] == 'VFR' ... elif lessons[x][5] == 'IFR' ...: the local vfr
\* afterwards; with any other tag it keeps what the iteration before left in it
vfr_after(filed, carried) ==
    IF filed = "VFR" THEN "True"
    ELSE IF filed = "IFR" THEN "False"
    ELSE carried

\* one pass of the loop body for the row line, up to viola, entered with the
\* local vfr holding carried
Viola(line, weather, carried) ==
    LET takeoff == str_to_time(line[4])
        flag == vfr_after(line[6], carried)
    IN  IF Raised(takeoff) THEN takeoff
        ELSE
          LET mins == pilot_minimums(line[1], line[3] # "", flag = "True")
          IN  IF Raised(mins) THEN mins
              ELSE IF flag = "unbound" THEN Raise("UnboundLocalError")
              ELSE
                LET weather_conditions == get_weather_report(takeoff.value, weather)
                IN  IF Raised(weather_conditions) THEN weather_conditions
                    ELSE get_weather_violation(ValueOf(weather_conditions), mins.value)

\* if viola != ''
Violates(viola) == viola # ""

\* mutant: the new row is put in front of the result list
Appended_front(res, i) == <<i>> \o res

\* results.append(line): the result list refers to the row, it holds no copy
Appended(res, i) == Append(res, i)

\* mutant: a failing lesson is skipped and the loop goes on
LoopBody_skip(ls, i, res, carried) ==
    LET viola == Viola(ls[i], WeatherFile, carried)
        flag == vfr_after(ls[i][6], carried)
    IN  IF Raised(viola)
        THEN [lessons |-> ls, x |-> i + 1, results |-> res, raised |-> "", vfr |-> flag]
        ELSE IF Violates(viola.value)
        THEN [lessons |-> [ls EXCEPT ![i] = Append(@, viola.value)], x |-> i + 1,
              results |-> Appended(res, i), raised |-> "", vfr |-> flag]
        ELSE [lessons |-> ls, x |-> i + 1, results |-> res, raised |-> "", vfr |-> flag]

\* the loop body for index i, entered with the local vfr holding carried: the
\* rows, the index, the results, the exception it raises ("" if none) and the
\* local vfr afterwards
LoopBody(ls, i, res, carried) ==
    LET viola == Viola(ls[i], WeatherFile, carried)
        flag == vfr_after(ls[i][6], carried)
    IN  IF Raised(viola)
        THEN [lessons |-> ls, x |-> i, results |-> res, raised |-> viola.exc,
              vfr |-> carried]
        ELSE IF Violates(viola.value)
        THEN [lessons |-> [ls EXCEPT ![i] = Append(@, viola.value)], x |-> i + 1,
              results |-> Appended(res, i), raised |-> "", vfr |-> flag]
        ELSE [lessons |-> ls, x |-> i + 1, results |-> res, raised |-> "", vfr |-> flag]

(***************************************************************************)
(* app.py                                                                  *)
(***************************************************************************)
Usage == "Usage: python auditor dataset [output.csv]"
Header == <<"STUDENT", "AIRPLANE", "INSTRUCTOR", "TAKEOFF", "LANDING", "FILED", "AREA",
            "REASON">>

\* discover_violations: the summary line for the list vios
OutLine(vios) ==
    IF Len(vios) = 1 THEN ToString(Len(vios)) \o " violation found."
    ELSE IF Len(vios) > 1 THEN ToString(Len(vios)) \o " violations found."
    ELSE "No violations found."

\* the rows a list of references denotes
RowsOf(res, ls) == [k \in 1..Len(res) |-> ls[res[k]]]

ArgTokens == {"KITH-2017", "report.csv", "--test"}
ArgLists == UNION {[1..n -> ArgTokens] : n \in 0..3}

\* what execute does with args before any audit: "usage", "test", "one" (the
\* call discover_violations(args)) or "two" (discover_violations(args[0], args[1]))
Dispatch(args) ==
    IF Len(args) = 0 \/ Len(args) > 2 THEN "usage"
    ELSE IF Len(args) = 2 /\ args[2] = "--test" THEN "usage"
    ELSE IF Len(args) = 2 /\ args[1] = "--test" THEN "usage"
    ELSE IF Len(args) = 1 /\ args[1] = "--test" THEN "test"
    ELSE IF Len(args) = 1 THEN "one"
    ELSE "two"

Idle ==
    /\ lessons = <<>> /\ x = 0 /\ results = <<>>
    /\ printed = <<>> /\ written = <<>> /\ tested = FALSE
    /\ audits = <<>> /\ raised = ""
    /\ vfr = "unbound" /\ order = <<>>

Init ==
    /\ fn = "execute"
    /\ inp \in [args : ArgLists]
    /\ out = Pending
    /\ pc = "execute"
    /\ Idle

\* execute(args) printing the usage line: a wrong number of arguments, or '--test'
\* beside another argument
ExecuteUsage ==
    /\ pc = "execute" /\ Dispatch(inp.args) = "usage"
    /\ printed' = Append(printed, Usage)
    /\ pc' = "done" /\ out' = ReturnNone
    /\ UNCHANGED <<fn, inp, lessons, x, results, written, tested, audits, raised,
                 vfr, order>>

\* execute(['--test']): tests.test_all()
ExecuteTest ==
    /\ pc = "execute" /\ Dispatch(inp.args) = "test"
    /\ tested' = TRUE
    /\ pc' = "done" /\ out' = ReturnNone
    /\ UNCHANGED <<fn, inp, lessons, x, results, printed, written, audits, raised,
                 vfr, order>>

\* execute([dataset]): discover_violations(args) lacks its second argument, the
\* call raises TypeError before the function body, and the except clause prints
ExecuteOne ==
    /\ pc = "execute" /\ Dispatch(inp.args) = "one"
    /\ printed' = Append(printed, Usage)
    /\ pc' = "done" /\ out' = ReturnNone
    /\ UNCHANGED <<fn, inp, lessons, x, results, written, tested, audits, raised,
                 vfr, order>>

\* execute([dataset, output]): discover_violations(args[0], args[1]) calls
\* list_weather_violations(directory), which reads the files of the directory;
\* a directory without them raises, and the except clause of execute prints
ExecuteTwo ==
    /\ pc = "execute" /\ Dispatch(inp.args) = "two"
    /\ audits' = Append(audits, inp.args[1])
    /\ IF inp.args[1] \in Datasets
       THEN /\ \E file \in LessonFiles : lessons' = file
            /\ x' = 1 /\ results' = <<>>
            /\ pc' = "loop"
            /\ vfr' = "unbound"
            /\ UNCHANGED <<out, printed, raised>>
       ELSE /\ raised' = "FileNotFoundError"
            /\ printed' = Append(printed, Usage)
            /\ pc' = "done" /\ out' = ReturnNone
            /\ UNCHANGED <<lessons, x, results, vfr>>
    /\ UNCHANGED <<fn, inp, written, tested, order>>

\* one iteration of the loop of list_weather_violations; an exception leaves
\* list_weather_violations and discover_violations and is caught in execute
LoopStep ==
    /\ pc = "loop" /\ x <= Len(lessons)
    /\ LET after == LoopBody(lessons, x, results, vfr)
       IN  /\ lessons' = after.lessons
           /\ vfr' = after.vfr
           /\ x' = after.x
           /\ results' = after.results
           /\ raised' = after.raised
           /\ IF after.raised # ""
              THEN /\ printed' = Append(printed, Usage)
                   /\ pc' = "done" /\ out' = ReturnNone
              ELSE UNCHANGED <<printed, pc, out>>
    /\ UNCHANGED <<fn, inp, written, tested, audits, order>>

\* the loop is over: list_weather_violations returns results, discover_violations
\* writes the report and prints the summary line
LoopEnd ==
    /\ pc = "loop" /\ x > Len(lessons)
    /\ written' = Append(written, [filename |-> inp.args[2],
                                   data |-> <<Header>> \o RowsOf(results, lessons)])
    /\ printed' = Append(printed, OutLine(results))
    /\ pc' = "done" /\ out' = ReturnNone
    /\ UNCHANGED <<fn, inp, lessons, x, results, tested, audits, raised,
                 vfr, order>>

Next == ExecuteUsage \/ ExecuteTest \/ ExecuteOne \/ ExecuteTwo \/ LoopStep \/ LoopEnd

Spec == Init /\ [][Next]_vars

(***************************************************************************)
(* list_weather_violations(directory) as a whole, and its loop body        *)
(* applied to the rows of a lessons file in any order.                     *)
(***************************************************************************)
\* the loop from index i on: the list it returns or the exception it raises
RECURSIVE Loop(_, _, _, _)
Loop(ls, i, res, carried) ==
    IF i > Len(ls) THEN Return(List(RowsOf(res, ls)))
    ELSE LET after == LoopBody(ls, i, res, carried)
         IN  IF after.raised # "" THEN Raise(after.raised)
             ELSE Loop(after.lessons, after.x, after.results, after.vfr)

\* list_weather_violations on a directory whose lessons.csv holds the rows file
list_weather_violations(file) == Loop(file, 1, <<>>, "unbound")

\* the rows taken so far
Taken == {order[k] : k \in 1..Len(order)}

InitOrder ==
    /\ fn = "list_weather_violations"
    /\ inp \in [directory : Datasets, lessons : LessonFiles]
    /\ out = Pending
    /\ pc = "loop"
    /\ lessons = inp.lessons /\ x = 1 /\ results = <<>>
    /\ printed = <<>> /\ written = <<>> /\ tested = FALSE
    /\ audits = <<inp.directory>> /\ raised = ""
    /\ vfr = "unbound" /\ order = <<>>

\* the loop body applied to a row that was not taken yet, whichever it is
EvaluateAny ==
    /\ pc = "loop"
    /\ \E i \in (1..Len(lessons)) \ Taken :
          LET after == LoopBody(lessons, i, results, vfr)
          IN  /\ lessons' = after.lessons
              /\ x' = after.x
              /\ results' = after.results
              /\ raised' = after.raised
              /\ vfr' = after.vfr
              /\ order' = Append(order, i)
              /\ IF after.raised # ""
                 THEN pc' = "done" /\ out' = Raise(after.raised)
                 ELSE UNCHANGED <<pc, out>>
    /\ UNCHANGED <<fn, inp, printed, written, tested, audits>>

\* every row was taken: the violators are put back in input order and returned
PutBack ==
    /\ pc = "loop" /\ Taken = 1..Len(lessons)
    /\ out' = Return(List(RowsOf(SortSeq(results, LAMBDA a, b : a < b), lessons)))
    /\ pc' = "done"
    /\ UNCHANGED <<fn, inp, lessons, x, results, printed, written, tested, audits, raised,
                   vfr, order>>

NextOrder == EvaluateAny \/ PutBack

SpecOrder == InitOrder /\ [][NextOrder]_vars

(***************************************************************************)
(* The checks, the lookup and the classifier applied to drawn inputs.      *)
(***************************************************************************)
InitFunctions ==
    /\ \/ /\ fn = "bad_visibility"
          /\ inp \in [visibility : VisibilityMeasurements, minimum : VisibilityLimits]
       \/ /\ fn = "bad_winds"
          /\ inp \in [winds : WindMeasurements, maxwind : WindLimits, maxcross : WindLimits]
       \/ /\ fn = "bad_ceiling"
          /\ inp \in [ceiling : CeilingMeasurements, minimum : CeilingLimits]
       \/ /\ fn = "get_weather_report"
          /\ inp \in [takeoff : Datetimes, weather : WeatherLogs]
       \/ /\ fn = "get_weather_violation"
          /\ inp \in [weather : Readings \cup {None}, minimums : MinimumsLists]
    /\ out = Pending
    /\ pc = "call"
    /\ Idle

Call(name, outcome) ==
    /\ pc = "call" /\ fn = name
    /\ out' = outcome
    /\ pc' = "done"
    /\ UNCHANGED <<fn, inp, lessons, x, results, printed, written, tested, audits, raised,
                 vfr, order>>

CallBadVisibility ==
    fn = "bad_visibility" /\ Call("bad_visibility", bad_visibility(inp.visibility, inp.minimum))
CallBadWinds ==
    fn = "bad_winds" /\ Call("bad_winds", bad_winds(inp.winds, inp.maxwind, inp.maxcross))
CallBadCeiling ==
    fn = "bad_ceiling" /\ Call("bad_ceiling", bad_ceiling(inp.ceiling, inp.minimum))
CallGetWeatherReport ==
    fn = "get_weather_report"
    /\ Call("get_weather_report", get_weather_report(inp.takeoff, inp.weather))
CallGetWeatherViolation ==
    fn = "get_weather_violation"
    /\ Call("get_weather_violation", get_weather_violation(inp.weather, inp.minimums))

NextFunctions ==
    \/ CallBadVisibility
    \/ CallBadWinds
    \/ CallBadCeiling
    \/ CallGetWeatherReport
    \/ CallGetWeatherViolation

SpecFunctions == InitFunctions /\ [][NextFunctions]_vars

(***************************************************************************)
(* Properties of get_weather_report (under SpecFunctions).                 *)
(***************************************************************************)
ReportDone == fn = "get_weather_report" /\ pc = "done"

\* the log has an entry keyed by the takeoff's own ISO timestamp
HasExact == isoformat(inp.takeoff) \in DOMAIN inp.weather

\* the instants that have an entry with the takeoff's UTC offset, strictly before it
PriorInstants ==
    {dt \in Datetimes : /\ isoformat(dt) \in DOMAIN inp.weather
                        /\ dt.tzinfo = inp.takeoff.tzinfo
                        /\ dt.hour < inp.takeoff.hour}

LatestPrior == CHOOSE dt \in PriorInstants : \A e \in PriorInstants : e.hour <= dt.hour

\* C1: get_weather_report returns None, and does not fail, whenever the log has
\* neither an entry keyed by the takeoff's ISO timestamp nor an entry with the
\* takeoff's UTC offset that is strictly before it (an empty log included).
C1_NoReportReturnsNone ==
    (ReportDone /\ ~HasExact /\ PriorInstants = {}) => out = ReturnNone

IsDict(m) == "units" \in DOMAIN m

\* the distance the visibility check goes by
Governing(visibility) ==
    IF "minimum" \in DOMAIN visibility THEN visibility.minimum ELSE visibility.prevailing

\* minimum >= the governing distance in statute miles (feet divided by 5280)
VisibilityViolated(visibility, minimum) ==
    IF visibility.units = "FT" THEN minimum * 5280 >= Governing(visibility)
    ELSE minimum >= Governing(visibility)

WindValue(winds) == IF "gusts" \in DOMAIN winds THEN winds.gusts ELSE winds.speed
OverKnots(value, units, max) ==
    IF units = "MPS" THEN value * 194384 > max * 100000 ELSE value > max
WindsViolated(winds, maxwind, maxcross) ==
    \/ OverKnots(WindValue(winds), winds.units, maxwind)
    \/ "crosswind" \in DOMAIN winds /\ OverKnots(winds.crosswind, winds.units, maxcross)

\* C8: for every structured wind measurement, bad_winds returns True iff the wind
\* value in knots is strictly greater than maxwind or the crosswind value in knots
\* is strictly greater than maxcross (MPS times 1.94384, KT unchanged).
C8_WindsOverMaximum ==
    (fn = "bad_winds" /\ pc = "done" /\ IsDict(inp.winds)) =>
        out = Return(WindsViolated(inp.winds, inp.maxwind, inp.maxcross))

\* C11: with both 'speed' and 'gusts', bad_winds compares the larger of the two
\* against maxwind: a speed over maxwind with gusts and crosswind within their
\* maximums gives True.
C11_WorseOfSpeedAndGusts ==
    (/\ fn = "bad_winds" /\ pc = "done" /\ IsDict(inp.winds)
     /\ {"speed", "gusts", "crosswind"} \subseteq DOMAIN inp.winds
     /\ OverKnots(inp.winds.speed, inp.winds.units, inp.maxwind)
     /\ ~OverKnots(inp.winds.gusts, inp.winds.units, inp.maxwind)
     /\ ~OverKnots(inp.winds.crosswind, inp.winds.units, inp.maxcross))
        => out = Return(TRUE)

\* C13: a wind dictionary holding only 'speed' and 'units' is valid, and bad_winds
\* returns True for it iff the speed in knots is greater than maxwind.
C13_SpeedAndUnitsOnly ==
    (fn = "bad_winds" /\ pc = "done" /\ IsDict(inp.winds)
     /\ DOMAIN inp.winds = {"speed", "units"})
        => out = Return(OverKnots(inp.winds.speed, inp.winds.units, inp.maxwind))

\* the layers that make a ceiling
CeilingLayers(layers) ==
    {i \in 1..Len(layers) : layers[i].type \in {"broken", "overcast", "indefinite ceiling"}}

\* C9: for every list of cloud layers, the empty list included, bad_ceiling returns
\* a boolean: True iff some layer is broken, overcast or an indefinite ceiling and
\* minimum is strictly greater than the smallest height among all such layers;
\* scattered and 'a few' layers never matter.
C9_CeilingBelowMinimum ==
    (fn = "bad_ceiling" /\ pc = "done" /\ "list" \in DOMAIN inp.ceiling) =>
        LET layers == inp.ceiling.list
            gov == CeilingLayers(layers)
        IN  out = Return(/\ gov # {}
                         /\ \E i \in gov :
                               /\ \A j \in gov : layers[i].height <= layers[j].height
                               /\ inp.minimum > layers[i].height)

\* C9 witness: a scattered layer lies under the minimum and under the only ceiling
\* layer, which is above the minimum: compliant
C9_Witness ==
    /\ fn = "bad_ceiling" /\ pc = "done"
    /\ inp.ceiling = List(<<[type |-> "scattered", height |-> 700, units |-> "FT"],
                            [type |-> "overcast", height |-> 1200, units |-> "FT"]>>)
    /\ inp.minimum = 1000
    /\ out = Return(FALSE)

(***************************************************************************)
(* Properties of get_weather_violation (under SpecFunctions).              *)
(***************************************************************************)
ViolationDone == fn = "get_weather_violation" /\ pc = "done"

\* the checks that report a violation for the reading, in the fixed order
Fired(weather, minimums) ==
    SelectSeq(<<"Visibility", "Winds", "Ceiling">>,
              LAMBDA label :
                  \/ label = "Visibility"
                     /\ bad_visibility(weather.visibility, minimums[2]) = Return(TRUE)
                  \/ label = "Winds"
                     /\ bad_winds(weather.wind, minimums[3], minimums[4]) = Return(TRUE)
                  \/ label = "Ceiling"
                     /\ bad_ceiling(weather.sky, minimums[1]) = Return(TRUE))

\* C3: get_weather_violation returns 'Unknown' for None; otherwise '' when no check
\* reports a violation, the check's own label when exactly one does, and 'Weather'
\* when two or three do.
C3_LabelOfFiredChecks ==
    ViolationDone =>
        IF inp.weather = None THEN out = Return("Unknown")
        ELSE LET F == Fired(inp.weather, inp.minimums)
             IN  /\ Len(F) = 0 => out = Return("")
                 /\ Len(F) = 1 => out = Return(F[1])
                 /\ Len(F) >= 2 => out = Return("Weather")

\* C10: bad_visibility, bad_winds and bad_ceiling return True on 'unavailable' for
\* every limit, 'calm' and 'clear' return False, and get_weather_violation returns
\* a non-empty label for every reading with an 'unavailable' measurement.
C10_UnavailableIsReported ==
    /\ (fn = "bad_visibility" /\ pc = "done" /\ inp.visibility = Str("unavailable"))
          => out = Return(TRUE)
    /\ (fn = "bad_winds" /\ pc = "done" /\ inp.winds = Str("unavailable"))
          => out = Return(TRUE)
    /\ (fn = "bad_winds" /\ pc = "done" /\ inp.winds = Str("calm"))
          => out = Return(FALSE)
    /\ (fn = "bad_ceiling" /\ pc = "done" /\ inp.ceiling = Str("unavailable"))
          => out = Return(TRUE)
    /\ (fn = "bad_ceiling" /\ pc = "done" /\ inp.ceiling = Str("clear"))
          => out = Return(FALSE)
    /\ (/\ ViolationDone /\ inp.weather # None
        /\ Str("unavailable") \in {inp.weather.visibility, inp.weather.wind, inp.weather.sky})
          => Returned(out) /\ out.value # ""

(***************************************************************************)
(* Properties of the audit (under Spec).                                   *)
(***************************************************************************)
\* the lessons file has been read
Loaded == pc \in {"loop", "done"} /\ x >= 1

\* the seven fields of row i as they were read
Fields(i) == SubSeq(lessons[i], 1, 7)

\* the local vfr when the loop reaches row i
RECURSIVE VfrBefore(_)
VfrBefore(i) == IF i = 1 THEN "unbound" ELSE vfr_after(Fields(i - 1)[6], VfrBefore(i - 1))

\* the outcome of evaluating row i in its turn
Evaluated(i) == Viola(Fields(i), WeatherFile, VfrBefore(i))

\* the rows processed so far whose label is not ''
Violators == {i \in 1..(x - 1) : Evaluated(i).value # ""}

\* C4: at every step of the audit loop and at its end, the result list is exactly
\* the rows processed so far whose label is not '', in input order, each once and
\* with its one label appended as the last field; no other row is in it.
C4_ResultsAreViolatorsInOrder ==
    Loaded =>
        /\ \A i \in 1..(x - 1) : Returned(Evaluated(i))
        /\ {results[k] : k \in 1..Len(results)} = Violators
        /\ \A k \in 1..(Len(results) - 1) : results[k] < results[k + 1]
        /\ \A i \in 1..Len(lessons) :
              IF i \in Violators
              THEN lessons[i] = Append(Fields(i), Evaluated(i).value)
              ELSE Len(lessons[i]) = 7

\* C4 witness: the first row is compliant and left out, the second violates two
\* categories and is in the result once, labelled 'Weather'
C4_Witness ==
    /\ pc = "done" /\ Len(lessons) = 2 /\ raised = ""
    /\ Evaluated(1) = Return("")
    /\ Len(Fired(WeatherFile[isoformat([hour |-> 8, tzinfo |-> 0 - 4])],
                 <<3000, 100, 10, 5>>)) = 2
    /\ Fields(2)[4] = isoformat([hour |-> 8, tzinfo |-> 0 - 4]) /\ Fields(2)[6] = "VFR"
    /\ results = <<2>>
    /\ lessons[2][8] = "Weather"

\* C5: execute with one argument that is not '--test' runs the audit on args[0];
\* with two, neither '--test', it runs the audit on args[0] and writes the report
\* to args[1]; the usage line is not printed when the dataset is well-formed.
C5_OneOrTwoArgumentsAudit ==
    (/\ pc = "done" /\ Dispatch(inp.args) \in {"one", "two"}
     /\ inp.args[1] \in Datasets
     /\ raised = "")
        => /\ audits = <<inp.args[1]>>
           /\ \A k \in 1..Len(printed) : printed[k] # Usage
           /\ Len(inp.args) = 2 =>
                 Len(written) = 1 /\ written[1].filename = inp.args[2]

\* some row of the file fails to evaluate
SomeLessonFails == \E i \in 1..Len(lessons) : Raised(Evaluated(i))

\* C6: if evaluating a lesson fails during an audit started by execute, the
\* failure leaves list_weather_violations uncaught, execute prints the usage
\* line, write_csv is never called and no summary line is printed, whatever the
\* earlier lessons gave.
C6_FailureIsAllOrNothing ==
    (Loaded /\ SomeLessonFails) =>
        /\ written = <<>>
        /\ \A k \in 1..Len(printed) : printed[k] = Usage
        /\ pc = "done" => /\ printed = <<Usage>>
                          /\ raised # ""
                          /\ Raised(Evaluated(x)) /\ raised = Evaluated(x).exc

\* C6 witness: the first lesson was classified as a violation, the second failed
C6_Witness ==
    /\ pc = "done" /\ Len(lessons) = 2
    /\ results = <<1>> /\ Len(lessons[1]) = 8
    /\ x = 2 /\ Raised(Evaluated(2))
    /\ printed = <<Usage>> /\ written = <<>>

\* C12: the audit leaves its lesson rows as they were read: every loaded row keeps
\* its 7 fields, and the result list holds copies, so none of its rows is a row of
\* the loaded lessons table.
C12_LessonsAreReadOnly ==
    Loaded =>
        /\ \A i \in 1..Len(lessons) : Len(lessons[i]) = 7
        /\ \A k \in 1..Len(results) : results[k] \notin 1..Len(lessons)

(***************************************************************************)
(* Properties of the order of evaluation (under SpecOrder).                *)
(***************************************************************************)
\* C14: a lesson's label depends on that lesson, the observation log and the
\* minimums only, so evaluating the lessons in any order and putting the
\* violators back in input order gives the list the sequential loop gives, the
\* same on every run over the same files.
C14_AnyOrderSameList ==
    (fn = "list_weather_violations" /\ pc = "done") =>
        LET sequential == list_weather_violations(inp.lessons)
        IN  IF Returned(sequential) THEN out = sequential ELSE Raised(out)

====
